---- MODULE Spec2Model ----
(***************************************************************************)
(* A model of the MLB season statistics server (src/server.ts) and of the  *)
(* stand-alone loaders (src/data/batting.ts).                              *)
(*                                                                         *)
(* JavaScript strings are TLA+ strings, read one character at a time with  *)
(* SubSeq.  A JavaScript number is an integer count of thousandths         *)
(* (2 is 2000, 168.667 is 168667), which is exact for every value the      *)
(* model reads or computes.  A JavaScript value is a record [t, n, s]:     *)
(* t is "num", "str", "null", "undef", "nan" or "inf" (n is its sign).     *)
(***************************************************************************)
EXTENDS Integers, Sequences, FiniteSets, TLC

(***************************************************************************)
(* Bounds of the model.                                                    *)
(***************************************************************************)
MaxEntries == 2
MaxDiskRows == 2
MaxLimit == 2
MaxWhole == 170

(***************************************************************************)
(* The state: the season directory on disk, the position of the load (pc,  *)
(* next), the two indexes, the result of the tool call being answered, and *)
(* the last call of a function of data/batting.ts.                         *)
(***************************************************************************)
VARIABLES disk, pc, next, battingByTeam, pitchingByTeam, reply, call,
          transport, posts

vars == <<disk, pc, next, battingByTeam, pitchingByTeam, reply, call, transport, posts>>

(***************************************************************************)
(* Strings.                                                                *)
(***************************************************************************)
UpperAlpha == "ABCDEFGHIJKLMNOPQRSTUVWXYZ"
LowerAlpha == "abcdefghijklmnopqrstuvwxyz"
DigitChars == "0123456789"
\* The characters of the model in UTF-16 code unit order.
CodeOrder == " #*+-./0123456789ABCDEFGHIJKLMNOPQRSTUVWXYZ_abcdefghijklmnopqrstuvwxyz"

Ch(s, i) == SubSeq(s, i, i)

\* The position of character c in alphabet, 0 when it is not there.
IndexIn(c, alphabet) ==
  IF \E i \in 1..Len(alphabet) : Ch(alphabet, i) = c
  THEN CHOOSE i \in 1..Len(alphabet) : Ch(alphabet, i) = c
  ELSE 0

\* The characters of alphabet, each with its position.
PositionsIn(alphabet) ==
  [c \in {Ch(alphabet, i) : i \in 1..Len(alphabet)} |-> IndexIn(c, alphabet)]

UpperPositions == PositionsIn(UpperAlpha)
LowerPositions == PositionsIn(LowerAlpha)
DigitPositions == PositionsIn(DigitChars)
CodePositions == PositionsIn(CodeOrder)

LowerChar(c) ==
  IF c \in DOMAIN UpperPositions THEN Ch(LowerAlpha, UpperPositions[c]) ELSE c

UpperChar(c) ==
  IF c \in DOMAIN LowerPositions THEN Ch(UpperAlpha, LowerPositions[c]) ELSE c

RECURSIVE toLowerCase(_)
toLowerCase(s) ==
  IF Len(s) = 0 THEN "" ELSE LowerChar(Ch(s, 1)) \o toLowerCase(SubSeq(s, 2, Len(s)))

RECURSIVE toUpperCase(_)
toUpperCase(s) ==
  IF Len(s) = 0 THEN "" ELSE UpperChar(Ch(s, 1)) \o toUpperCase(SubSeq(s, 2, Len(s)))

\* String.prototype.includes
includes(s, sub) ==
  \E i \in 1..(Len(s) - Len(sub) + 1) : SubSeq(s, i, i + Len(sub) - 1) = sub

\* String.prototype.replace with a string pattern: the first occurrence only.
replace(s, pat, rep) ==
  IF includes(s, pat)
  THEN LET i == CHOOSE k \in 1..(Len(s) - Len(pat) + 1) :
                  /\ SubSeq(s, k, k + Len(pat) - 1) = pat
                  /\ \A j \in 1..(k - 1) : SubSeq(s, j, j + Len(pat) - 1) # pat
       IN SubSeq(s, 1, i - 1) \o rep \o SubSeq(s, i + Len(pat), Len(s))
  ELSE s

RECURSIVE trimStart(_)
trimStart(s) ==
  IF Len(s) > 0 /\ Ch(s, 1) = " " THEN trimStart(SubSeq(s, 2, Len(s))) ELSE s

RECURSIVE trimEnd(_)
trimEnd(s) ==
  IF Len(s) > 0 /\ Ch(s, Len(s)) = " " THEN trimEnd(SubSeq(s, 1, Len(s) - 1)) ELSE s

trim(s) == trimEnd(trimStart(s))

\* String.prototype.replace with a global one-character pattern: every
\* occurrence of the character is removed.
RECURSIVE removeAll(_, _)
removeAll(s, ch) ==
  IF Len(s) = 0 THEN ""
  ELSE IF Ch(s, 1) = ch THEN removeAll(SubSeq(s, 2, Len(s)), ch)
  ELSE Ch(s, 1) \o removeAll(SubSeq(s, 2, Len(s)), ch)

\* String.prototype.split with a character class: the pieces between the
\* separators, empty ones included.
RECURSIVE split(_, _)
split(s, seps) ==
  IF \E i \in 1..Len(s) : Ch(s, i) \in seps
  THEN LET i == CHOOSE k \in 1..Len(s) :
                  Ch(s, k) \in seps /\ \A j \in 1..(k - 1) : Ch(s, j) \notin seps
       IN <<SubSeq(s, 1, i - 1)>> \o split(SubSeq(s, i + 1, Len(s)), seps)
  ELSE <<s>>

\* The relational comparison of two strings: code unit by code unit.
RECURSIVE StrLess(_, _)
StrLess(a, b) ==
  IF Len(b) = 0 THEN FALSE
  ELSE IF Len(a) = 0 THEN TRUE
  ELSE IF Ch(a, 1) = Ch(b, 1) THEN StrLess(SubSeq(a, 2, Len(a)), SubSeq(b, 2, Len(b)))
  ELSE CodePositions[Ch(a, 1)] < CodePositions[Ch(b, 1)]

(***************************************************************************)
(* Numbers and values.                                                     *)
(***************************************************************************)
Milli == 1000

Num(x) == [t |-> "num", n |-> x, s |-> ""]
Str(x) == [t |-> "str", n |-> 0, s |-> x]
Null == [t |-> "null", n |-> 0, s |-> ""]
Undef == [t |-> "undef", n |-> 0, s |-> ""]
NaN == [t |-> "nan", n |-> 0, s |-> ""]
\* An object or a function; s is the string it converts to.
Obj(x) == [t |-> "obj", n |-> 0, s |-> x]

IsNullish(v) == v.t \in {"null", "undef"}

IsDigits(s) == \A i \in 1..Len(s) : Ch(s, i) \in DOMAIN DigitPositions

RECURSIVE DigitsValue(_)
DigitsValue(s) ==
  IF Len(s) = 0 THEN 0
  ELSE DigitsValue(SubSeq(s, 1, Len(s) - 1)) * 10 + (DigitPositions[Ch(s, Len(s))] - 1)

RECURSIVE DigitsOf(_)
DigitsOf(k) ==
  IF k < 10 THEN Ch(DigitChars, k + 1) ELSE DigitsOf(k \div 10) \o Ch(DigitChars, (k % 10) + 1)

\* The value of the decimal literal with integer digits ip and fraction
\* digits fp, NaN when it is none or has more than three fraction digits.
DecimalValue(ip, fp) ==
  IF IsDigits(ip) /\ IsDigits(fp) /\ Len(fp) <= 3 /\ Len(ip) + Len(fp) > 0
  THEN Num(DigitsValue(ip) * Milli + DigitsValue(fp \o SubSeq("000", 1, 3 - Len(fp))))
  ELSE NaN

DecimalAt(s, dot) ==
  IF dot = 0 THEN DecimalValue(s, "")
  ELSE DecimalValue(SubSeq(s, 1, dot - 1), SubSeq(s, dot + 1, Len(s)))

TrimmedToNumber(s) == IF Len(s) = 0 THEN Num(0) ELSE DecimalAt(s, IndexIn(".", s))

\* Number(s) of a string: the empty string is 0, an unsigned decimal literal
\* is its value, anything else is NaN.
StringToNumber(s0) == TrimmedToNumber(trim(s0))

\* String(n) of a number: the fraction without its trailing zeros.
RECURSIVE StripZeros(_)
StripZeros(s) ==
  IF Len(s) > 0 /\ Ch(s, Len(s)) = "0" THEN StripZeros(SubSeq(s, 1, Len(s) - 1)) ELSE s

NumberToString(n) ==
  LET f == n % Milli
      f3 == SubSeq("000", 1, 3 - Len(DigitsOf(f))) \o DigitsOf(f)
  IN IF f = 0 THEN DigitsOf(n \div Milli)
     ELSE DigitsOf(n \div Milli) \o "." \o StripZeros(f3)

\* String(v)
JsString(v) ==
  CASE v.t = "num" -> NumberToString(v.n)
    [] v.t = "str" -> v.s
    [] v.t = "null" -> "null"
    [] v.t = "undef" -> "undefined"
    [] v.t = "obj" -> v.s
    [] OTHER -> "NaN"

\* Number(v)
JsNumber(v) ==
  CASE v.t = "num" -> v
    [] v.t = "inf" -> v
    [] v.t = "str" -> StringToNumber(v.s)
    [] v.t = "null" -> Num(0)
    [] OTHER -> NaN

(***************************************************************************)
(* Field normalisers of server.ts (both revisions hold the same text).     *)
(***************************************************************************)
\* toNum and toPct: v is a CSV cell (a string value) or undefined.
toNum(v) ==
  IF v.t = "undef" \/ (v.t = "str" /\ v.s = "") THEN Null
  ELSE IF JsNumber(v).t = "num" THEN JsNumber(v) ELSE Null

toPct(v) == toNum(v)

\* cleanPlayer of server.ts: raw is a CSV cell or undefined.
cleanPlayer(raw) ==
  LET s == trim(IF raw.t = "undef" THEN "" ELSE raw.s)
      bats == IF includes(s, "*") THEN Str("L")
              ELSE IF includes(s, "#") THEN Str("S") ELSE Null
      name == trim(replace(replace(s, "*", ""), "#", ""))
  IN [name |-> name, bats |-> bats]

\* toFixed(1) of a fraction in [0, 1), as a count of tenths.
FracTenths(milli) == (milli + 50) \div 100

\* A parser that reads the fraction as a decimal and takes the nearest third.
ipToOutsNearestThird(ipStr) ==
  IF ipStr.t = "undef" \/ ipStr.s = "" THEN Null
  ELSE LET n == JsNumber(ipStr) IN
    IF n.t # "num" THEN Null
    ELSE LET whole == n.n \div Milli
             diff == n.n - whole * Milli
         IN Num((whole * 3 + ((diff * 3 + 500) \div Milli)) * Milli)

\* ipToOuts of server.ts: tenths other than .1 and .2 count as no outs.
ipToOuts(ipStr) ==
  IF ipStr.t = "undef" \/ ipStr.s = "" THEN Null
  ELSE LET n == JsNumber(ipStr) IN
    IF n.t # "num" THEN Null
    ELSE LET whole == n.n \div Milli
             frac == FracTenths(n.n - whole * Milli)
             outs == IF frac = 1 THEN 1 ELSE IF frac = 2 THEN 2 ELSE 0
         IN Num((whole * 3 + outs) * Milli)

\* ipToOuts of data/batting.ts: other tenths are rounded to the nearest third.
dataIpToOuts(ipStr) ==
  IF ipStr.t = "undef" \/ ipStr.s = "" THEN Null
  ELSE LET n == JsNumber(ipStr) IN
    IF n.t # "num" THEN Null
    ELSE LET whole == n.n \div Milli
             diff == n.n - whole * Milli
             frac == FracTenths(diff)
         IN IF frac \notin {0, 1, 2}
            THEN Num((whole * 3 + ((diff * 3 + 500) \div Milli)) * Milli)
            ELSE Num((whole * 3 + (IF frac = 1 THEN 1 ELSE IF frac = 2 THEN 2 ELSE 0)) * Milli)

\* +(outs / 3).toFixed(3)
outsToInningsFloat(outs) ==
  IF outs.t = "null" THEN Null
  ELSE Num((2 * outs.n + 3) \div 6)

(***************************************************************************)
(* CSV rows.  A parsed CSV record is the sequence of its <<header, cell>>  *)
(* pairs in column order (Object.entries of the record csv-parse returns,  *)
(* whose cells are trimmed); a short row lacks its trailing pairs.         *)
(***************************************************************************)
battingKeyMap ==
  "Rk" :> "rk" @@ "Player" :> "player_raw" @@ "Age" :> "age" @@ "Pos" :> "pos_raw" @@
  "WAR" :> "war" @@ "G" :> "g" @@ "PA" :> "pa" @@ "AB" :> "ab" @@ "R" :> "r" @@
  "H" :> "h" @@ "2B" :> "_2b" @@ "3B" :> "_3b" @@ "HR" :> "hr" @@ "RBI" :> "rbi" @@
  "SB" :> "sb" @@ "CS" :> "cs" @@ "BB" :> "bb" @@ "SO" :> "so" @@ "BA" :> "ba" @@
  "OBP" :> "obp" @@ "SLG" :> "slg" @@ "OPS" :> "ops" @@ "OPS+" :> "ops_plus" @@
  "rOBA" :> "roba" @@ "Rbat+" :> "rbat_plus" @@ "TB" :> "tb" @@ "GIDP" :> "gidp" @@
  "HBP" :> "hbp" @@ "SH" :> "sh" @@ "SF" :> "sf" @@ "IBB" :> "ibb" @@
  "Awards" :> "awards" @@ "Player-additional" :> "player_id"

pitchingKeyMap ==
  "Rk" :> "rk" @@ "Player" :> "player_raw" @@ "Age" :> "age" @@ "Pos" :> "pos_raw" @@
  "WAR" :> "war" @@ "W" :> "w" @@ "L" :> "l" @@ "W-L%" :> "wl_pct" @@ "ERA" :> "era" @@
  "G" :> "g" @@ "GS" :> "gs" @@ "GF" :> "gf" @@ "CG" :> "cg" @@ "SHO" :> "sho" @@
  "SV" :> "sv" @@ "IP" :> "ip_csv" @@ "H" :> "h" @@ "R" :> "r" @@ "ER" :> "er" @@
  "HR" :> "hr" @@ "BB" :> "bb" @@ "IBB" :> "ibb" @@ "SO" :> "so" @@ "HBP" :> "hbp" @@
  "BK" :> "bk" @@ "WP" :> "wp" @@ "BF" :> "bf" @@ "ERA+" :> "era_plus" @@
  "FIP" :> "fip" @@ "WHIP" :> "whip" @@ "H9" :> "h9" @@ "HR9" :> "hr9" @@
  "BB9" :> "bb9" @@ "SO9" :> "so9" @@ "SO/BB" :> "so_per_bb" @@
  "Awards" :> "awards" @@ "Player-additional" :> "player_id"

\* keyMap[k] ?? k
KeyOf(keyMap, k) == IF k \in DOMAIN keyMap THEN keyMap[k] ELSE k

\* for (const [k, v] of Object.entries(r)) m[keyMap[k] ?? k] = v
RECURSIVE Remap(_, _)
Remap(keyMap, r) ==
  IF Len(r) = 0 THEN [k \in {} |-> ""]
  ELSE (KeyOf(keyMap, r[Len(r)][1]) :> r[Len(r)][2]) @@ Remap(keyMap, SubSeq(r, 1, Len(r) - 1))

\* m[k]: the cell, or undefined
Cell(m, k) == IF k \in DOMAIN m THEN Str(m[k]) ELSE Undef

\* A loader that forgets toLowerCase.
isTeamTotalCaseSensitive(m) ==
  includes(IF "player_raw" \in DOMAIN m THEN m["player_raw"] ELSE "", "team totals")

\* (m["player_raw"] ?? "").toLowerCase().includes("team totals")
isTeamTotal(m) ==
  includes(toLowerCase(IF "player_raw" \in DOMAIN m THEN m["player_raw"] ELSE ""), "team totals")

(***************************************************************************)
(* The row loaders of server.ts.  Of the numeric columns the model keeps   *)
(* pa, hr and ops_plus (batting) and era (pitching); the source loads the  *)
(* others with the same toNum / toPct call.                                *)
(***************************************************************************)
BattingRowOf(m) ==
  [player_raw |-> IF "player_raw" \in DOMAIN m THEN Str(m["player_raw"]) ELSE Str(""),
   player_name |-> Str(cleanPlayer(Cell(m, "player_raw")).name),
   bats |-> cleanPlayer(Cell(m, "player_raw")).bats,
   pa |-> toNum(Cell(m, "pa")),
   hr |-> toNum(Cell(m, "hr")),
   ops_plus |-> toNum(Cell(m, "ops_plus"))]

RECURSIVE loadBattingCSV(_)
loadBattingCSV(rows) ==
  IF Len(rows) = 0 THEN <<>>
  ELSE LET m == Remap(battingKeyMap, Head(rows)) IN
    IF isTeamTotal(m) THEN loadBattingCSV(Tail(rows))
    ELSE <<BattingRowOf(m)>> \o loadBattingCSV(Tail(rows))

PitchingRowOf(m) ==
  [player_raw |-> IF "player_raw" \in DOMAIN m THEN Str(m["player_raw"]) ELSE Str(""),
   player_name |-> Str(cleanPlayer(Cell(m, "player_raw")).name),
   bats |-> cleanPlayer(Cell(m, "player_raw")).bats,
   era |-> toNum(Cell(m, "era")),
   ip_outs |-> ipToOuts(Cell(m, "ip_csv")),
   ip |-> outsToInningsFloat(ipToOuts(Cell(m, "ip_csv")))]

RECURSIVE loadPitchingCSV(_)
loadPitchingCSV(rows) ==
  IF Len(rows) = 0 THEN <<>>
  ELSE LET m == Remap(pitchingKeyMap, Head(rows)) IN
    IF isTeamTotal(m) THEN loadPitchingCSV(Tail(rows))
    ELSE <<PitchingRowOf(m)>> \o loadPitchingCSV(Tail(rows))

(***************************************************************************)
(* The loaders of data/batting.ts: every row is built, with its            *)
(* is_team_total flag, and the flagged rows are filtered out at the end.   *)
(***************************************************************************)
\* cleanPlayer of data/batting.ts, called with m["player_raw"] || "".
dataCleanPlayer(raw) ==
  IF raw = "" THEN [name |-> "", bats |-> Null]
  ELSE [name |-> trim(replace(replace(raw, "*", ""), "#", "")),
        bats |-> IF includes(raw, "*") THEN Str("L")
                 ELSE IF includes(raw, "#") THEN Str("S") ELSE Null]

\* splitPositions of data/batting.ts:
\* posRaw.replace(/\*/g, "").split(/[\/DH]/).filter(Boolean), [] for "".
splitPositions(posRaw) ==
  IF posRaw = "" THEN <<>>
  ELSE SelectSeq(split(removeAll(posRaw, "*"), {"/", "D", "H"}), LAMBDA t : t # "")

dataBattingRowOf(m) ==
  LET raw == IF "player_raw" \in DOMAIN m THEN m["player_raw"] ELSE "" IN
  [player_raw |-> Str(raw),
   player_name |-> Str(dataCleanPlayer(raw).name),
   bats |-> dataCleanPlayer(raw).bats,
   pa |-> toNum(Cell(m, "pa")),
   hr |-> toNum(Cell(m, "hr")),
   ops_plus |-> toNum(Cell(m, "ops_plus")),
   is_team_total |-> isTeamTotal(m)]

dataLoadBattingCSV(rows) ==
  SelectSeq([i \in 1..Len(rows) |-> dataBattingRowOf(Remap(battingKeyMap, rows[i]))],
            LAMBDA r : ~r.is_team_total)

dataPitchingRowOf(m) ==
  LET raw == IF "player_raw" \in DOMAIN m THEN m["player_raw"] ELSE "" IN
  [player_raw |-> Str(raw),
   player_name |-> Str(dataCleanPlayer(raw).name),
   bats |-> dataCleanPlayer(raw).bats,
   era |-> toNum(Cell(m, "era")),
   ip_outs |-> dataIpToOuts(Cell(m, "ip_csv")),
   ip |-> outsToInningsFloat(dataIpToOuts(Cell(m, "ip_csv"))),
   is_team_total |-> isTeamTotal(m)]

dataLoadPitchingCSV(rows) ==
  SelectSeq([i \in 1..Len(rows) |-> dataPitchingRowOf(Remap(pitchingKeyMap, rows[i]))],
            LAMBDA r : ~r.is_team_total)

(***************************************************************************)
(* The season directory on disk.  An entry of data/2025 has a name, is a   *)
(* directory or not, and holds a batting.csv and a pitching.csv; a file    *)
(* with ok = FALSE is missing or unreadable (reading it throws).           *)
(***************************************************************************)
BRow(player, pa, hr, ops) ==
  << <<"Player", player>>, <<"PA", pa>>, <<"HR", hr>>, <<"OPS+", ops>> >>

PRow(player, ip, era) ==
  << <<"Player", player>>, <<"IP", ip>>, <<"ERA", era>> >>

BTotals == BRow("Team Totals", "9", "9", "9")
PTotals == PRow("TEAM TOTALS", "9.0", "4")

\* Player rows: two batters tied on OPS+ and one with empty and unparsable
\* cells; a pitcher with innings and one without.
BattingPlayers ==
  { BRow("Soto*", "2", "1", "2"),
    BRow("SOTO", "1", "1", "2"),
    BRow("Soto Jr#", "", "x", "1") }

PitchingPlayers ==
  { PRow("Diaz", "1.2", "2"),
    PRow("diaz*", "", "1") }

\* A short row: nothing but a name.
ShortRow == << <<"Player", "Marte">> >>

Missing == [ok |-> FALSE, rows |-> <<>>]
File(rows) == [ok |-> TRUE, rows |-> rows]

SeqsUpTo(S, n) == UNION {[1..k -> S] : k \in 0..n}

NotADir(name) == [name |-> name, isDir |-> FALSE, batting |-> Missing, pitching |-> Missing]
TeamDir(name, b, p) == [name |-> name, isDir |-> TRUE, batting |-> b, pitching |-> p]

EntryRows(e) == Len(e.batting.rows) + Len(e.pitching.rows)

\* The season directories whose entries are named by names, in that order:
\* each is one of others or a team directory with files from bfiles and
\* pfiles, and they hold at most budget rows in all.
RECURSIVE DisksOf(_, _, _, _, _)
DisksOf(names, others, bfiles, pfiles, budget) ==
  IF Len(names) = 0 THEN {<<>>}
  ELSE LET n == Head(names)
           entries == {e \in {NotADir(n) : o \in others} \cup
                             {TeamDir(n, b, p) : b \in bfiles, p \in pfiles} :
                         EntryRows(e) <= budget}
       IN UNION {{<<e>> \o d :
                    d \in DisksOf(Tail(names), others, bfiles, pfiles, budget - EntryRows(e))} :
                 e \in entries}

DirNames == {"nym", "NYM", "atl"}

NameSeqs ==
  {ns \in SeqsUpTo(DirNames, MaxEntries) : \A i, j \in 1..Len(ns) : i # j => ns[i] # ns[j]}

\* Any discovery order of the names, entries that are no directory, and
\* files that are missing, empty, or hold a team totals row and a player.
SeasonDirs ==
  UNION {DisksOf(ns, {"file"},
                 {Missing, File(<<>>), File(<<BTotals, ShortRow>>)},
                 {Missing, File(<<>>), File(<<PRow("Diaz", "1.2", "2"), PTotals>>)},
                 4 * MaxEntries) : ns \in NameSeqs}

\* Two team directories that hold both files, with at most MaxDiskRows
\* player rows in all.
QueryDirs ==
  DisksOf(<<"nym", "atl">>, {},
          {File(rows) : rows \in SeqsUpTo(BattingPlayers, MaxDiskRows)},
          {File(rows) : rows \in SeqsUpTo(PitchingPlayers, MaxDiskRows)},
          MaxDiskRows)

(***************************************************************************)
(* The indexes battingByTeam and pitchingByTeam are JavaScript objects:    *)
(* a sequence of [team, rows] in key insertion order.                      *)
(***************************************************************************)
HasKey(map, key) == \E i \in 1..Len(map) : map[i].team = key

\* map[key] ?? []
MapGet(map, key) ==
  IF HasKey(map, key) THEN map[CHOOSE i \in 1..Len(map) : map[i].team = key].rows ELSE <<>>

\* map[key] = rows
MapSet(map, key, rows) ==
  IF HasKey(map, key)
  THEN [i \in 1..Len(map) |-> IF map[i].team = key THEN [team |-> key, rows |-> rows] ELSE map[i]]
  ELSE Append(map, [team |-> key, rows |-> rows])

\* Object.keys(map)
MapKeys(map) == [i \in 1..Len(map) |-> map[i].team]

\* Object.values(map).flat()
RECURSIVE MapFlat(_)
MapFlat(map) == IF Len(map) = 0 THEN <<>> ELSE Head(map).rows \o MapFlat(Tail(map))

\* rows.map((r) => ({ ...r, team }))
WithTeam(rows, team) == [i \in 1..Len(rows) |-> [team |-> Str(team)] @@ rows[i]]

(***************************************************************************)
(* Metric aliases.                                                         *)
(***************************************************************************)
metricAliases ==
  "OPS+" :> "ops_plus" @@ "ops+" :> "ops_plus" @@ "OPS_plus" :> "ops_plus" @@
  "OPS" :> "ops" @@ "ops" :> "ops" @@ "BA" :> "ba" @@ "OBP" :> "obp" @@
  "SLG" :> "slg" @@ "Rbat+" :> "rbat_plus" @@ "rbat+" :> "rbat_plus" @@
  "2B" :> "_2b" @@ "3B" :> "_3b" @@ "SO" :> "so" @@ "BB" :> "bb" @@ "TB" :> "tb" @@
  "rOBA" :> "roba" @@ "ROBA" :> "roba" @@
  "W-L%" :> "wl_pct" @@ "w-l%" :> "wl_pct" @@ "wl%" :> "wl_pct" @@
  "ERA+" :> "era_plus" @@ "era+" :> "era_plus" @@ "SO/BB" :> "so_per_bb" @@
  "K/BB" :> "so_per_bb" @@ "k/bb" :> "so_per_bb" @@ "SO9" :> "so9" @@ "K9" :> "so9" @@
  "BB9" :> "bb9" @@ "HR9" :> "hr9" @@ "H9" :> "h9" @@ "IP" :> "ip" @@
  "ip_csv" :> "ip" @@ "WHIP" :> "whip" @@ "FIP" :> "fip" @@ "ERA" :> "era" @@
  "BF" :> "bf"

\* The members every object literal inherits from Object.prototype, each
\* with the string its value converts to.
ObjectPrototype ==
  "constructor" :> "function Object() { [native code] }" @@
  "toString" :> "function toString() { [native code] }" @@
  "toLocaleString" :> "function toLocaleString() { [native code] }" @@
  "valueOf" :> "function valueOf() { [native code] }" @@
  "hasOwnProperty" :> "function hasOwnProperty() { [native code] }" @@
  "isPrototypeOf" :> "function isPrototypeOf() { [native code] }" @@
  "propertyIsEnumerable" :> "function propertyIsEnumerable() { [native code] }" @@
  "__proto__" :> "[object Object]"

\* metricAliases[m]: an own entry, else an inherited member, else undefined.
aliasEntry(m) ==
  IF m \in DOMAIN metricAliases THEN Str(metricAliases[m])
  ELSE IF m \in DOMAIN ObjectPrototype THEN Obj(ObjectPrototype[m])
  ELSE Undef

\* metricAliases[m] ?? metricAliases[m.toUpperCase()] ?? m
normalizeMetricValue(m) ==
  IF ~IsNullish(aliasEntry(m)) THEN aliasEntry(m)
  ELSE IF ~IsNullish(aliasEntry(toUpperCase(m))) THEN aliasEntry(toUpperCase(m))
  ELSE Str(m)

\* The resolved token as the handlers use it, as a property key.
normalizeMetric(m) == JsString(normalizeMetricValue(m))

normalizeColumns(cols) == [i \in 1..Len(cols) |-> normalizeMetric(cols[i])]

(***************************************************************************)
(* JavaScript objects built by the tools: a sequence of [k, v] pairs in    *)
(* property order (no key of the model is an array index).                 *)
(***************************************************************************)
\* r[key]
Get(r, key) == IF key \in DOMAIN r THEN r[key] ELSE Undef

\* obj[k] = v: an existing property keeps its place.
ObjSet(obj, k, v) ==
  IF \E i \in 1..Len(obj) : obj[i].k = k
  THEN [i \in 1..Len(obj) |-> IF obj[i].k = k THEN [k |-> k, v |-> v] ELSE obj[i]]
  ELSE Append(obj, [k |-> k, v |-> v])

\* The object that receives the pairs of entries in order.
RECURSIVE ObjFrom(_)
ObjFrom(entries) ==
  IF Len(entries) = 0 THEN <<>>
  ELSE ObjSet(ObjFrom(SubSeq(entries, 1, Len(entries) - 1)),
              entries[Len(entries)].k, entries[Len(entries)].v)

ObjKeys(obj) == [i \in 1..Len(obj) |-> obj[i].k]

ObjGet(obj, k) ==
  IF \E i \in 1..Len(obj) : obj[i].k = k
  THEN obj[CHOOSE i \in 1..Len(obj) : obj[i].k = k].v
  ELSE Undef

\* JSON.stringify of an object leaves out the properties that are undefined.
JsonObj(obj) == SelectSeq(obj, LAMBDA p : p.v.t # "undef")

JsonRows(rows) == [i \in 1..Len(rows) |-> JsonObj(rows[i])]

(***************************************************************************)
(* The tools.                                                              *)
(***************************************************************************)
\* A selection that falls back to every team's rows for an unknown team.
ScopeRowsOrLeague(table, scope, team) ==
  LET map == IF table = "batting" THEN battingByTeam ELSE pitchingByTeam
  IN IF scope = "league" \/ ~HasKey(map, toUpperCase(team))
     THEN MapFlat(map) ELSE MapGet(map, toUpperCase(team))

\* The rows a tool reads: one team's, or every team's in key order.
ScopeRows(table, scope, team) ==
  LET map == IF table = "batting" THEN battingByTeam ELSE pitchingByTeam
  IN IF scope = "league" THEN MapFlat(map) ELSE MapGet(map, toUpperCase(team))

\* A filter that one matching pair is enough to pass.
PassesFiltersSome(r, filters) ==
  \/ filters = <<"none">>
  \/ \E i \in 1..Len(filters) : JsString(Get(r, filters[i][1])) = filters[i][2]

\* Object.entries(filters).every(([k, v]) => String(r[k]) === v);
\* filters is a sequence of <<field, value>> pairs, or "none" when not given.
PassesFilters(r, filters) ==
  \/ filters = <<"none">>
  \/ \A i \in 1..Len(filters) : JsString(Get(r, filters[i][1])) = filters[i][2]

\* A match of the argument anywhere in the name.
namesMatchSubstring(name, player) == includes(toLowerCase(name), toLowerCase(player))

\* (r.player_name ?? "").toLowerCase() === player.toLowerCase()
namesMatch(name, player) == toLowerCase(name) = toLowerCase(player)

playerStatsRows(table, scope, team, player, columns, filters) ==
  LET data == ScopeRows(table, scope, team)
      cols == normalizeColumns(columns)
      named == SelectSeq(data, LAMBDA r : namesMatch(r.player_name.s, player))
      kept == SelectSeq(named, LAMBDA r : PassesFilters(r, filters))
      Base(r) == ObjFrom([i \in 1..Len(cols) |-> [k |-> cols[i], v |-> Get(r, cols[i])]])
  IN [i \in 1..Len(kept) |->
        IF scope = "league"
        THEN ObjFrom(<<[k |-> "team", v |-> kept[i].team]>> \o Base(kept[i]))
        ELSE Base(kept[i])]

\* x - y for numbers that may be infinite, as its sign; NaN counts as zero,
\* which is how Array.prototype.sort reads a NaN comparator result.
Infinity(sign) == [t |-> "inf", n |-> sign, s |-> ""]

SignOfDifference(x, y) ==
  CASE x.t = "num" /\ y.t = "num" -> x.n - y.n
    [] x.t = "inf" /\ y.t = "num" -> x.n
    [] x.t = "num" /\ y.t = "inf" -> 0 - y.n
    [] x.t = "inf" /\ y.t = "inf" -> IF x.n = y.n THEN 0 ELSE x.n
    [] OTHER -> 0

\* Number(r[key] ?? (direction === "asc" ? Infinity : -Infinity))
metricNumber(r, key, direction) ==
  JsNumber(IF IsNullish(Get(r, key))
           THEN Infinity(IF direction = "asc" THEN 1 ELSE -1)
           ELSE Get(r, key))

\* direction === "asc" ? av - bv : bv - av
difference(av, bv, direction) ==
  IF direction = "asc" THEN SignOfDifference(av, bv) ELSE SignOfDifference(bv, av)

\* The comparator of the leaderboard's sort.
compareRows(a, b, key, direction) ==
  difference(metricNumber(a, key, direction), metricNumber(b, key, direction), direction)

\* The largest element of a set of positions, 0 when there is none.
LastOf(S) == IF S = {} THEN 0 ELSE CHOOSE i \in S : \A j \in S : j <= i

InsertAt(xs, x, k) == SubSeq(xs, 1, k) \o <<x>> \o SubSeq(xs, k + 1, Len(xs))

\* An insertion that puts x before the elements it ties with.
insertRowBeforeTies(sorted, x, key, direction) ==
  InsertAt(sorted, x,
           LastOf({i \in 1..Len(sorted) : compareRows(sorted[i], x, key, direction) < 0}))

\* x goes behind the last element that the comparator does not put after it.
insertRow(sorted, x, key, direction) ==
  InsertAt(sorted, x,
           LastOf({i \in 1..Len(sorted) : compareRows(sorted[i], x, key, direction) <= 0}))

\* Array.prototype.sort, which is stable.
RECURSIVE sortRows(_, _, _)
sortRows(xs, key, direction) ==
  IF Len(xs) = 0 THEN <<>>
  ELSE insertRow(sortRows(SubSeq(xs, 1, Len(xs) - 1), key, direction),
                 xs[Len(xs)], key, direction)

\* A qualifier whose two fields both filter, whatever the table.
qualifiesBothFields(r, table, qualifier) ==
  /\ (qualifier.minPA.t = "num" /\ qualifier.minPA.n # 0) =>
       (IF IsNullish(Get(r, "pa")) THEN 0 ELSE r.pa.n) >= qualifier.minPA.n
  /\ (qualifier.minIP.t = "num" /\ qualifier.minIP.n # 0) =>
       (IF IsNullish(Get(r, "ip")) THEN 0 ELSE r.ip.n) >= qualifier.minIP.n

\* The qualifier is [minPA, minIP], each a number or undefined.
qualifies(r, table, qualifier) ==
  IF table = "batting" /\ qualifier.minPA.t = "num" /\ qualifier.minPA.n # 0
  THEN (IF IsNullish(Get(r, "pa")) THEN 0 ELSE r.pa.n) >= qualifier.minPA.n
  ELSE IF table = "pitching" /\ qualifier.minIP.t = "num" /\ qualifier.minIP.n # 0
  THEN (IF IsNullish(Get(r, "ip")) THEN 0 ELSE r.ip.n) >= qualifier.minIP.n
  ELSE TRUE

\* A filter that keeps the rows without a metric value.
rankableAlways(r, key) == TRUE

\* r[key] != null
rankable(r, key) == ~IsNullish(Get(r, key))

\* The output row of the leaderboard for dataset row r.
boardRow(r, table, key) ==
  ObjFrom(<<[k |-> "team", v |-> r.team],
            [k |-> "player", v |-> r.player_name],
            [k |-> key, v |-> Get(r, key)],
            IF table = "batting" THEN [k |-> "PA", v |-> Get(r, "pa")]
            ELSE [k |-> "IP", v |-> Get(r, "ip")]>>)

\* xs.slice(0, n)
slice(xs, n) == SubSeq(xs, 1, IF n < Len(xs) THEN n ELSE Len(xs))

\* top.map(boardRow)
boardRows(top, table, key) == [i \in 1..Len(top) |-> boardRow(top[i], table, key)]

\* The handler, from the resolved key on: qualifier filter, null filter,
\* sort, slice, map.
leaderboardByKey(table, team, scope, key, direction, limit, qualifier) ==
  LET dataRaw == ScopeRows(table, scope, team)
      data == SelectSeq(dataRaw, LAMBDA r : qualifies(r, table, qualifier))
      sorted == sortRows(SelectSeq(data, LAMBDA r : rankable(r, key)), key, direction)
  IN boardRows(slice(sorted, limit), table, key)

leaderboardRows(table, team, scope, metric, direction, limit, qualifier) ==
  leaderboardByKey(table, team, scope, normalizeMetric(metric), direction, limit, qualifier)

\* A handler that sorts the team's array of the index itself.
indexSortedInPlace(map, team, scope, key, direction) ==
  IF scope = "team" /\ HasKey(map, toUpperCase(team))
  THEN MapSet(map, toUpperCase(team), sortRows(MapGet(map, toUpperCase(team)), key, direction))
  ELSE map

\* The index after the handler has run: sort acts in place, on the array
\* that filter returned, so the arrays of the index are as they were.
indexAfterLeaderboard(map, team, scope, key, direction) == map

NoReply == [op |-> "none"]
NoCall == [fn |-> "none"]

\* The callers of POST /mcp, and a caller with no request in flight.
Clients == {"a", "b"}
NoPost == [pc |-> "idle", id |-> 0, via |-> "none", response |-> "none"]

InitWith(disks) ==
  /\ disk \in disks
  /\ pc = "loading"
  /\ next = 1
  /\ battingByTeam = <<>>
  /\ pitchingByTeam = <<>>
  /\ reply = NoReply
  /\ call = NoCall
  /\ transport = "none"
  /\ posts = [c \in Clients |-> NoPost]

\* The batting try block stores its rows: the entry is a directory and
\* loadBattingCSV does not throw.
battingLoads(e) == e.isDir /\ e.batting.ok

\* One try block around both loads: a failing batting file skips pitching.
pitchingLoadsAfterBatting(e) == e.isDir /\ e.batting.ok /\ e.pitching.ok

\* The pitching try block stores its rows, whatever the batting one did.
pitchingLoads(e) == e.isDir /\ e.pitching.ok

\* One iteration of the loop of loadSeasonTeams.
LoadTeamDir ==
  /\ pc = "loading"
  /\ next <= Len(disk)
  /\ LET e == disk[next]
         team == toUpperCase(e.name)
     IN /\ battingByTeam' =
             IF battingLoads(e)
             THEN MapSet(battingByTeam, team, WithTeam(loadBattingCSV(e.batting.rows), team))
             ELSE battingByTeam
        /\ pitchingByTeam' =
             IF pitchingLoads(e)
             THEN MapSet(pitchingByTeam, team, WithTeam(loadPitchingCSV(e.pitching.rows), team))
             ELSE pitchingByTeam
  /\ next' = next + 1
  /\ UNCHANGED <<disk, pc, reply, call, transport, posts>>

\* The loop ends; the server starts to listen.
LoadDone ==
  /\ pc = "loading"
  /\ next > Len(disk)
  /\ pc' = "idle"
  /\ UNCHANGED <<disk, next, battingByTeam, pitchingByTeam, reply, call, transport, posts>>

\* Array.prototype.sort() with no comparator: ascending by code units.
RECURSIVE SortStrings(_)
SortStrings(xs) ==
  IF Len(xs) = 0 THEN <<>>
  ELSE LET rest == SortStrings(Tail(xs))
           x == Head(xs)
           k == Cardinality({i \in 1..Len(rest) : StrLess(rest[i], x)})
       IN SubSeq(rest, 1, k) \o <<x>> \o SubSeq(rest, k + 1, Len(rest))

\* new Set filled from a sequence: first occurrences, in order.
RECURSIVE Uniq(_)
Uniq(xs) ==
  IF Len(xs) = 0 THEN <<>>
  ELSE LET init == Uniq(SubSeq(xs, 1, Len(xs) - 1))
           x == xs[Len(xs)]
       IN IF \E i \in 1..Len(init) : init[i] = x THEN init ELSE Append(init, x)

\* The keys of both indexes as they come, duplicates dropped.
teamsListUnsorted(bmap, pmap) == Uniq(MapKeys(bmap) \o MapKeys(pmap))

teamsList(bmap, pmap) == SortStrings(Uniq(MapKeys(bmap) \o MapKeys(pmap)))

\* The teams tool.
Teams ==
  /\ pc = "idle"
  /\ reply' = [op |-> "teams", teams |-> teamsList(battingByTeam, pitchingByTeam)]
  /\ pc' = "replied"
  /\ UNCHANGED <<disk, next, battingByTeam, pitchingByTeam, call, transport, posts>>

\* The tool's result is sent; the server waits for the next request.
Respond ==
  /\ pc = "replied"
  /\ reply' = NoReply
  /\ pc' = "idle"
  /\ UNCHANGED <<disk, next, battingByTeam, pitchingByTeam, call, transport, posts>>

(***************************************************************************)
(* The arguments the tools are called with.                                *)
(***************************************************************************)
Tables == {"batting", "pitching"}
Scopes == {"team", "league"}
Directions == {"asc", "desc"}
TeamArgs == {"nym"}
PlayerArgs == {"soto", "Diaz"}
ColumnArgs ==
  { <<"hr">>, <<"OPS+", "hr">>, <<"ops_plus", "OPS+", "pa">>, <<"hr", "team">>,
    <<"HR", "hr">>, <<"IP", "era">> }
NoFilters == <<"none">>
FilterArgs ==
  { NoFilters, <<>>, << <<"hr", "1">> >>, << <<"bats", "L">>, <<"hr", "1">> >>,
    << <<"ip", "1.667">> >> }
MetricArgs == {"OPS+", "hr", "era", "player_name"}
NoQualifier == [minPA |-> Undef, minIP |-> Undef]
QualifierArgs ==
  { NoQualifier,
    [minPA |-> Num(2000), minIP |-> Undef],
    [minPA |-> Num(0), minIP |-> Undef],
    [minPA |-> Undef, minIP |-> Num(1667)],
    [minPA |-> Num(1000), minIP |-> Num(2000)] }

\* What a tool returns for request req: the rows as structuredContent, and
\* their JSON text as content.
Result(op, req, rows) == [op |-> op, req |-> req, rows |-> rows, text |-> JsonRows(rows)]

\* The get_player_stats tool, called with arguments from the given sets.
GetPlayerStatsOf(teams, players, columnss, filterss) ==
  /\ pc = "idle"
  /\ \E table \in Tables, scope \in Scopes, team \in teams, player \in players,
        columns \in columnss, filters \in filterss :
       reply' = Result("get_player_stats",
                       [table |-> table, scope |-> scope, team |-> team,
                        player |-> player, columns |-> columns, filters |-> filters],
                       playerStatsRows(table, scope, team, player, columns, filters))
  /\ pc' = "replied"
  /\ UNCHANGED <<disk, next, battingByTeam, pitchingByTeam, call, transport, posts>>

GetPlayerStats == GetPlayerStatsOf(TeamArgs, PlayerArgs, ColumnArgs, FilterArgs)

\* The leaderboard tool, called with arguments from the given sets.
LeaderboardOf(teams, metrics, qualifiers) ==
  /\ pc = "idle"
  /\ \E table \in Tables, team \in teams, scope \in Scopes, metric \in metrics,
        direction \in Directions, limit \in 1..MaxLimit, qualifier \in qualifiers :
       /\ reply' = Result("leaderboard",
                          [table |-> table, team |-> team, scope |-> scope,
                           metric |-> metric, direction |-> direction, limit |-> limit,
                           qualifier |-> qualifier],
                          leaderboardRows(table, team, scope, metric, direction, limit, qualifier))
       /\ battingByTeam' =
            IF table = "batting"
            THEN indexAfterLeaderboard(battingByTeam, team, scope,
                                       normalizeMetric(metric), direction)
            ELSE battingByTeam
       /\ pitchingByTeam' =
            IF table = "pitching"
            THEN indexAfterLeaderboard(pitchingByTeam, team, scope,
                                       normalizeMetric(metric), direction)
            ELSE pitchingByTeam
  /\ pc' = "replied"
  /\ UNCHANGED <<disk, next, call, transport, posts>>

Leaderboard == LeaderboardOf(TeamArgs, MetricArgs, QualifierArgs)

InitQuery == InitWith(QueryDirs)
NextLeaderboard == LoadTeamDir \/ LoadDone \/ Leaderboard \/ Respond
SpecLeaderboard == InitQuery /\ [][NextLeaderboard]_vars
NextPlayer == LoadTeamDir \/ LoadDone \/ GetPlayerStats \/ Respond
SpecPlayer == InitQuery /\ [][NextPlayer]_vars

(***************************************************************************)
(* Calls of the innings parser, on the strings an IP column holds: a whole *)
(* number, with one fraction digit or none.                                *)
(***************************************************************************)
InningsString(whole, fraction, digit) ==
  IF fraction THEN DigitsOf(whole) \o "." \o DigitsOf(digit) ELSE DigitsOf(whole)

ParseInnings ==
  /\ pc = "loading"
  /\ call = NoCall
  /\ \E whole \in 0..MaxWhole, fraction \in BOOLEAN, digit \in 0..9 :
       /\ ~fraction => digit = 0
       /\ LET arg == InningsString(whole, fraction, digit)
          IN call' = [fn |-> "ipToOuts", whole |-> whole, fraction |-> fraction,
                      digit |-> digit, arg |-> arg,
                      outs |-> ipToOuts(Str(arg)),
                      ip |-> outsToInningsFloat(ipToOuts(Str(arg))),
                      dataOuts |-> dataIpToOuts(Str(arg)),
                      dataIp |-> outsToInningsFloat(dataIpToOuts(Str(arg)))]
  /\ UNCHANGED <<disk, pc, next, battingByTeam, pitchingByTeam, reply, transport, posts>>

\* The parsed value is handed back to the loader.
Return ==
  /\ call # NoCall
  /\ call' = NoCall
  /\ UNCHANGED <<disk, pc, next, battingByTeam, pitchingByTeam, reply, transport, posts>>

(***************************************************************************)
(* Calls of the alias resolver, on the tokens a caller may pass as a       *)
(* metric or a column: the alias keys in either case, the CSV headers, the *)
(* stored field names, names no table holds and names every object has.    *)
(***************************************************************************)
MetricTokens ==
  DOMAIN metricAliases \cup {toLowerCase(k) : k \in DOMAIN metricAliases}
  \cup DOMAIN battingKeyMap \cup DOMAIN pitchingKeyMap
  \cup {"hr", "era", "ops_plus", "player_name", "Ops", "nope", ""}
  \cup DOMAIN ObjectPrototype

ResolveAlias ==
  /\ pc = "loading"
  /\ call = NoCall
  /\ \E m \in MetricTokens :
       call' = [fn |-> "normalizeMetric", arg |-> m,
                result |-> normalizeMetricValue(m),
                key |-> normalizeMetric(m)]
  /\ UNCHANGED <<disk, pc, next, battingByTeam, pitchingByTeam, reply, transport, posts>>

(***************************************************************************)
(* Calls of the player-name cleaner, on a name with spaces around it and   *)
(* up to two handedness markers after it.                                  *)
(***************************************************************************)
Spaces == {"", " "}
Markers == {"", "*", "#"}
RawNames ==
  {""} \cup {lead \o "Juan Soto" \o m1 \o mid \o m2 \o trail :
               lead \in Spaces, m1 \in Markers, mid \in Spaces, m2 \in Markers,
               trail \in Spaces}

CleanPlayer ==
  /\ pc = "loading"
  /\ call = NoCall
  /\ \E raw \in RawNames :
       call' = [fn |-> "cleanPlayer", arg |-> raw,
                name |-> cleanPlayer(Str(raw)).name,
                bats |-> cleanPlayer(Str(raw)).bats,
                dataName |-> dataCleanPlayer(raw).name,
                dataBats |-> dataCleanPlayer(raw).bats]
  /\ UNCHANGED <<disk, pc, next, battingByTeam, pitchingByTeam, reply, transport, posts>>

(***************************************************************************)
(* Calls of the position splitter, on the strings a Pos column holds.      *)
(***************************************************************************)
PosStrings ==
  {"", "*4/DH3", "4", "*8", "DH", "D", "7/9", "*6/4", "/3D", "H/54", "UT", "1", "**2/H"}

SplitPositions ==
  /\ pc = "loading"
  /\ call = NoCall
  /\ \E posRaw \in PosStrings :
       call' = [fn |-> "splitPositions", arg |-> posRaw,
                positions |-> splitPositions(posRaw)]
  /\ UNCHANGED <<disk, pc, next, battingByTeam, pitchingByTeam, reply, transport, posts>>

InitLib == InitWith({<<>>})
NextLib == ParseInnings \/ ResolveAlias \/ CleanPlayer \/ SplitPositions \/ Return
SpecLib == InitLib /\ [][NextLib]_vars

(***************************************************************************)
(* Requests that may miss: a team no directory names, a player no row      *)
(* names, a metric no row holds; on seasons where a team may lack a file.  *)
(***************************************************************************)
AnyDirs ==
  DisksOf(<<"nym", "atl">>, {},
          {Missing, File(<<BRow("SOTO", "1", "1", "2"), BRow("Soto*", "2", "2", "2")>>)},
          {Missing, File(<<PRow("Diaz", "1.2", "2")>>)},
          6)
AnyTeamArgs == {"nym", "sea"}
AnyPlayerArgs == {"soto", "Diaz", "nobody"}
AnyColumnArgs == { <<"hr">>, <<"nope", "era">> }
AnyFilterArgs == { NoFilters, << <<"hr", "1">> >> }
AnyMetricArgs == {"hr", "era", "HR", "nope", "constructor"}
AnyQualifierArgs == { NoQualifier, [minPA |-> Num(2000), minIP |-> Undef] }

GetPlayerStatsAny ==
  GetPlayerStatsOf(AnyTeamArgs, AnyPlayerArgs, AnyColumnArgs, AnyFilterArgs)
LeaderboardAny == LeaderboardOf(AnyTeamArgs, AnyMetricArgs, AnyQualifierArgs)

InitAny == InitWith(AnyDirs)
NextQuery ==
  \/ LoadTeamDir \/ LoadDone
  \/ GetPlayerStatsAny \/ LeaderboardAny \/ Teams \/ Respond
SpecQuery == InitAny /\ [][NextQuery]_vars

(***************************************************************************)
(* The POST /mcp handler, step by step, for callers whose requests may be  *)
(* in flight together.  The one McpServer holds the transport it was last  *)
(* connected to (transport); posts[c] is the request of caller c: where    *)
(* its handler stands, its JSON-RPC id, the transport the server took for  *)
(* its response, and whose response the caller has been sent.              *)
(***************************************************************************)
RpcIds == {1, 2}

\* The handler up to its first await: a transport of its own is made, and
\* server.connect(transport) binds the server to it.  A server that is
\* bound already is bound anew, or connect rejects, as the SDK build has it.
Post(c) ==
  /\ pc = "idle"
  /\ posts[c].pc = "idle"
  /\ \E id \in RpcIds, rejects \in BOOLEAN :
       /\ rejects => transport # "none"
       /\ posts' = [posts EXCEPT ![c] =
                      [pc |-> IF rejects THEN "rejected" ELSE "connecting",
                       id |-> id, via |-> "none", response |-> "none"]]
       /\ transport' = IF rejects THEN transport ELSE c
  /\ UNCHANGED <<disk, pc, next, battingByTeam, pitchingByTeam, reply, call>>

\* The handler after await server.connect: transport.handleRequest hands
\* the request to the server, which takes its current transport for the
\* response and starts the tool.
HandleRequest(c) ==
  /\ posts[c].pc = "connecting"
  /\ posts' = [posts EXCEPT ![c].pc = "running", ![c].via = transport]
  /\ UNCHANGED <<disk, pc, next, battingByTeam, pitchingByTeam, reply, call, transport>>

\* A transport writes a response to its caller when it has a request of
\* that id waiting for one.
Waiting(t, id) ==
  /\ t \in Clients
  /\ posts[t].pc = "running" /\ posts[t].id = id /\ posts[t].response = "none"

\* The tool has run: the server sends the response on the transport it took.
Send(c) ==
  /\ posts[c].pc = "running"
  /\ posts' = [t \in Clients |->
                 [posts[t] EXCEPT
                    !.response = IF t = posts[c].via /\ Waiting(t, posts[c].id)
                                 THEN c ELSE @,
                    !.pc = IF t = c THEN "sent" ELSE @]]
  /\ UNCHANGED <<disk, pc, next, battingByTeam, pitchingByTeam, reply, call, transport>>

\* res "close": the caller's transport is closed, which unbinds the server
\* if connect had bound it.
Close(c) ==
  /\ posts[c].pc \in {"sent", "rejected"}
  /\ transport' = IF posts[c].pc = "rejected" THEN transport ELSE "none"
  /\ posts' = [posts EXCEPT ![c] = NoPost]
  /\ UNCHANGED <<disk, pc, next, battingByTeam, pitchingByTeam, reply, call>>

InitConcurrent == InitWith(AnyDirs)
NextConcurrent ==
  \/ LoadTeamDir \/ LoadDone
  \/ \E c \in Clients : Post(c) \/ HandleRequest(c) \/ Send(c) \/ Close(c)
SpecConcurrent == InitConcurrent /\ [][NextConcurrent]_vars

InitLoad == InitWith(SeasonDirs \cup QueryDirs)
NextLoad == LoadTeamDir \/ LoadDone \/ Teams \/ Respond
SpecLoad == InitLoad /\ [][NextLoad]_vars

Init == InitLoad
Next ==
  \/ LoadTeamDir \/ LoadDone
  \/ ParseInnings \/ ResolveAlias \/ CleanPlayer \/ SplitPositions \/ Return
  \/ GetPlayerStats \/ Leaderboard \/ Teams \/ Respond
  \/ \E c \in Clients : Post(c) \/ HandleRequest(c) \/ Send(c) \/ Close(c)
Spec == Init /\ [][Next]_vars

(***************************************************************************)
(* Properties.                                                             *)
(***************************************************************************)
TeamTotalsName(raw) == includes(toLowerCase(raw), "team totals")

PlayerCell(rawRow) ==
  IF \E i \in 1..Len(rawRow) : rawRow[i][1] = "Player"
  THEN rawRow[CHOOSE i \in 1..Len(rawRow) : rawRow[i][1] = "Player"][2]
  ELSE ""

IndexedRows == MapFlat(battingByTeam) \o MapFlat(pitchingByTeam)

\* C1: no row whose raw Player field contains "team totals", in any case, is
\* in a loaded collection: not in the batting or the pitching index of the
\* server, and not in what the loaders of data/batting.ts return for any
\* file on disk.
C1_NoTeamTotals ==
  /\ \A i \in 1..Len(IndexedRows) : ~TeamTotalsName(IndexedRows[i].player_raw.s)
  /\ \A table \in Tables, scope \in Scopes :
       LET board == leaderboardRows(table, "nym", scope, "player_name", "asc",
                                    Len(IndexedRows), NoQualifier)
       IN /\ \A i \in 1..Len(board) : ~TeamTotalsName(ObjGet(board[i], "player").s)
          /\ playerStatsRows(table, scope, "nym", "Team Totals", <<"player_name">>, NoFilters) = <<>>
  /\ \A i \in 1..Len(disk) :
       LET b == dataLoadBattingCSV(disk[i].batting.rows)
           p == dataLoadPitchingCSV(disk[i].pitching.rows)
       IN /\ \A j \in 1..Len(b) : ~TeamTotalsName(b[j].player_raw.s)
          /\ \A j \in 1..Len(p) : ~TeamTotalsName(p[j].player_raw.s)

\* A batting.csv with a team totals row and a player row has been loaded, and
\* the player row is in the index.
C1_Witness ==
  /\ pc = "idle"
  /\ \E i \in 1..Len(disk) :
       /\ disk[i].isDir /\ disk[i].batting.ok
       /\ \E j \in 1..Len(disk[i].batting.rows) : TeamTotalsName(PlayerCell(disk[i].batting.rows[j]))
       /\ \E j \in 1..Len(disk[i].batting.rows) : ~TeamTotalsName(PlayerCell(disk[i].batting.rows[j]))
       /\ Len(MapGet(battingByTeam, toUpperCase(disk[i].name))) = 1
       /\ Len(dataLoadBattingCSV(disk[i].batting.rows)) = 1

(***************************************************************************)
(* The leaderboard.                                                        *)
(***************************************************************************)
BoardKey == normalizeMetric(reply.req.metric)

\* The dataset the request selects, in iteration order.
BoardData == ScopeRows(reply.req.table, reply.req.scope, reply.req.team)

ValueLeq(x, y) ==
  CASE x.t = "num" /\ y.t = "num" -> x.n <= y.n
    [] x.t = "str" /\ y.t = "str" -> x.s = y.s \/ StrLess(x.s, y.s)
    [] OTHER -> FALSE

InDirection(x, y, direction) ==
  IF direction = "asc" THEN ValueLeq(x, y) ELSE ValueLeq(y, x)

\* C2: the leaderboard returns at most limit rows, and each returned row's
\* value of the resolved metric is followed by one that is not smaller when
\* the direction is "asc", and not larger when it is "desc".
C2_OrderedByMetric ==
  reply.op = "leaderboard" =>
    /\ Len(reply.rows) <= reply.req.limit
    /\ \A i \in 1..(Len(reply.rows) - 1) :
         InDirection(ObjGet(reply.rows[i], BoardKey), ObjGet(reply.rows[i + 1], BoardKey),
                     reply.req.direction)

\* The leaderboard of player_name, ascending, lists "Soto" before "SOTO", as
\* the descending one does.
C2_Witness ==
  /\ reply.op = "leaderboard"
  /\ reply.req.metric = "player_name"
  /\ reply.req.direction = "asc"
  /\ Len(reply.rows) = 2
  /\ ObjGet(reply.rows[1], "player_name") = Str("Soto")
  /\ ObjGet(reply.rows[2], "player_name") = Str("SOTO")
  /\ reply.rows = leaderboardRows(reply.req.table, reply.req.team, reply.req.scope,
                                  reply.req.metric, "desc", reply.req.limit,
                                  reply.req.qualifier)

\* The value of a volume field of an output row, null counting as 0.
Volume(row, field) == IF IsNullish(ObjGet(row, field)) THEN 0 ELSE ObjGet(row, field).n

\* C3: with table=batting and minPA given every returned row has
\* PA >= minPA, with table=pitching and minIP given every returned row has
\* IP >= minIP (a null PA or IP counting as 0), and the field of the other
\* table changes nothing: the result is the one of the same request without
\* that field.
C3_QualifierHolds ==
  reply.op = "leaderboard" =>
    LET req == reply.req
        q == req.qualifier
        own == IF req.table = "batting" THEN [minPA |-> q.minPA, minIP |-> Undef]
               ELSE [minPA |-> Undef, minIP |-> q.minIP]
    IN /\ (req.table = "batting" /\ q.minPA.t = "num") =>
            \A i \in 1..Len(reply.rows) : Volume(reply.rows[i], "PA") >= q.minPA.n
       /\ (req.table = "pitching" /\ q.minIP.t = "num") =>
            \A i \in 1..Len(reply.rows) : Volume(reply.rows[i], "IP") >= q.minIP.n
       /\ reply.rows = leaderboardRows(req.table, req.team, req.scope, req.metric,
                                       req.direction, req.limit, own)

\* A batting leaderboard with minPA = 1 and minIP = 2 returns a row with
\* PA 1, and leaves out a row that has no PA.
C3_Witness ==
  /\ reply.op = "leaderboard"
  /\ reply.req.table = "batting"
  /\ reply.req.qualifier = [minPA |-> Num(1000), minIP |-> Num(2000)]
  /\ reply.req.metric = "OPS+"
  /\ reply.req.limit = 2
  /\ Len(BoardData) = 2
  /\ Len(reply.rows) = 1
  /\ ObjGet(reply.rows[1], "PA") = Num(1000)
  /\ \E i \in 1..2 : BoardData[i].pa = Null /\ BoardData[i].ops_plus.t = "num"

\* The positions of the dataset rows that pass the qualifier and have a
\* value of the metric.
Ranked ==
  {i \in 1..Len(BoardData) :
     /\ qualifies(BoardData[i], reply.req.table, reply.req.qualifier)
     /\ Get(BoardData[i], BoardKey).t \notin {"null", "undef"}}

\* C4: no returned row has a null or absent value of the resolved metric,
\* and the rows without one take no slot: the leaderboard returns limit rows,
\* or all the qualifying rows that have a value when they are fewer.
C4_NoNullMetric ==
  reply.op = "leaderboard" =>
    /\ \A i \in 1..Len(reply.rows) : ObjGet(reply.rows[i], BoardKey).t \notin {"null", "undef"}
    /\ Len(reply.rows) =
         IF reply.req.limit < Cardinality(Ranked) THEN reply.req.limit ELSE Cardinality(Ranked)

\* A leaderboard of hr with limit 1 over a row without hr followed by a row
\* with hr returns the second row.
C4_Witness ==
  /\ reply.op = "leaderboard"
  /\ reply.req.table = "batting"
  /\ reply.req.metric = "hr"
  /\ reply.req.limit = 1
  /\ reply.req.qualifier = NoQualifier
  /\ Len(BoardData) = 2
  /\ BoardData[1].hr = Null
  /\ BoardData[2].hr = Num(1000)
  /\ Len(reply.rows) = 1
  /\ ObjGet(reply.rows[1], "hr") = Num(1000)

\* The output rows of the dataset rows that pass the qualifier and have a
\* value of the metric, in dataset order.
RankedRows ==
  LET data == SelectSeq(BoardData,
                LAMBDA r : /\ qualifies(r, reply.req.table, reply.req.qualifier)
                           /\ Get(r, BoardKey).t \notin {"null", "undef"})
  IN [i \in 1..Len(data) |-> boardRow(data[i], reply.req.table, BoardKey)]

WithValue(rows, v) == SelectSeq(rows, LAMBDA row : ObjGet(row, BoardKey) = v)

\* C5: the returned rows that have one metric value are, in order, the first
\* of the dataset's rows with that value: ties keep the dataset order, and a
\* tie cut by the limit keeps the earlier rows.
C5_StableTies ==
  reply.op = "leaderboard" =>
    \A i \in 1..Len(reply.rows) :
      LET v == ObjGet(reply.rows[i], BoardKey)
          out == WithValue(reply.rows, v)
          all == WithValue(RankedRows, v)
      IN /\ Len(out) <= Len(all)
         /\ out = SubSeq(all, 1, Len(out))

\* Two rows tied on OPS+ with different PA: the leaderboard with limit 1
\* returns the one that is first in the dataset.
C5_Witness ==
  /\ reply.op = "leaderboard"
  /\ reply.req.table = "batting"
  /\ reply.req.metric = "OPS+"
  /\ reply.req.limit = 1
  /\ reply.req.qualifier = NoQualifier
  /\ Len(BoardData) = 2
  /\ BoardData[1].ops_plus = BoardData[2].ops_plus
  /\ BoardData[1].ops_plus.t = "num"
  /\ BoardData[1].pa # BoardData[2].pa
  /\ Len(reply.rows) = 1
  /\ ObjGet(reply.rows[1], "PA") = BoardData[1].pa

\* C2, for the metrics whose values are numbers: the order holds.
C2_OrderedWhenNumeric ==
  (reply.op = "leaderboard" /\ reply.req.metric # "player_name") => C2_OrderedByMetric

\* x ranks strictly better than y: greater for "desc", smaller for "asc".
Better(x, y, direction) == x # y /\ InDirection(x, y, direction)

\* C20: the leaderboard returns min(limit, E) rows, E being the number of
\* rows in scope that pass the qualifier and have a value of the metric, and
\* no such row that is left out ranks strictly better than a returned row:
\* the rows that rank better than a returned row are all returned.
C20_TrueTopN ==
  reply.op = "leaderboard" =>
    /\ Len(reply.rows) =
         IF reply.req.limit < Cardinality(Ranked) THEN reply.req.limit ELSE Cardinality(Ranked)
    /\ \A i \in 1..Len(reply.rows) :
         Cardinality({j \in Ranked :
                        Better(Get(BoardData[j], BoardKey), ObjGet(reply.rows[i], BoardKey),
                               reply.req.direction)})
           = Cardinality({k \in 1..Len(reply.rows) :
                            Better(ObjGet(reply.rows[k], BoardKey),
                                   ObjGet(reply.rows[i], BoardKey), reply.req.direction)})

\* The leaderboard of player_name, ascending, with limit 1 returns "Soto"
\* and leaves out "SOTO", which is the smaller string.
C20_Witness ==
  /\ reply.op = "leaderboard"
  /\ reply.req.metric = "player_name"
  /\ reply.req.direction = "asc"
  /\ reply.req.limit = 1
  /\ Len(reply.rows) = 1
  /\ ObjGet(reply.rows[1], "player_name") = Str("Soto")
  /\ \E j \in Ranked : BoardData[j].player_name = Str("SOTO")

\* C20, for the metrics whose values are numbers: the result is a top-N.
C20_TopNWhenNumeric ==
  (reply.op = "leaderboard" /\ reply.req.metric # "player_name") => C20_TrueTopN

\* A leaderboard of OPS+, ascending, with limit 1 over a row with the
\* greater value followed by a row with the smaller returns the second.
C20_NumericWitness ==
  /\ reply.op = "leaderboard"
  /\ reply.req.table = "batting"
  /\ reply.req.metric = "OPS+"
  /\ reply.req.direction = "asc"
  /\ reply.req.limit = 1
  /\ Len(BoardData) = 2
  /\ Ranked = {1, 2}
  /\ BoardData[1].ops_plus.n > BoardData[2].ops_plus.n
  /\ reply.rows = <<boardRow(BoardData[2], "batting", "ops_plus")>>

(***************************************************************************)
(* get_player_stats.                                                       *)
(***************************************************************************)
\* The dataset the request selects, in iteration order.
StatsData == ScopeRows(reply.req.table, reply.req.scope, reply.req.team)

\* The dataset rows whose cleaned name is the player argument, in any case.
Named ==
  SelectSeq(StatsData,
            LAMBDA r : toLowerCase(r.player_name.s) = toLowerCase(reply.req.player))

Unfiltered == reply.req.filters = <<"none">> \/ reply.req.filters = <<>>

\* C6: get_player_stats returns one row for each row of the selected scope
\* whose cleaned name equals the player argument in full, case aside, and
\* that the filters keep, and no other row: with no filters the rows are as
\* many as those dataset rows, and in league scope they carry those rows'
\* teams in order; with filters they are never more.
C6_ExactNameMatch ==
  reply.op = "get_player_stats" =>
    /\ Len(reply.rows) <= Len(Named)
    /\ Unfiltered =>
         /\ Len(reply.rows) = Len(Named)
         /\ reply.req.scope = "league" =>
              \A i \in 1..Len(Named) : ObjGet(reply.rows[i], "team") = Named[i].team

\* In league scope, "soto" finds the row of "SOTO" under the second team and
\* not the row of "Soto Jr" under the first.
C6_Witness ==
  /\ reply.op = "get_player_stats"
  /\ reply.req.table = "batting"
  /\ reply.req.scope = "league"
  /\ reply.req.player = "soto"
  /\ reply.req.filters = <<"none">>
  /\ Len(StatsData) = 2
  /\ StatsData[1].player_name = Str("Soto Jr") /\ StatsData[1].team = Str("NYM")
  /\ StatsData[2].player_name = Str("SOTO") /\ StatsData[2].team = Str("ATL")
  /\ Len(reply.rows) = 1
  /\ ObjGet(reply.rows[1], "team") = Str("ATL")

\* The keys the claim gives a row: team first in league scope, then the
\* resolved columns in the caller's order.
ResolvedKeys ==
  Uniq((IF reply.req.scope = "league" THEN <<"team">> ELSE <<>>) \o
       [i \in 1..Len(reply.req.columns) |-> normalizeMetric(reply.req.columns[i])])

\* C7: every row of the serialised result of get_player_stats has exactly
\* the keys the requested columns resolve to, in the caller's order, after a
\* team key if and only if the scope is league.
C7_ExactKeys ==
  reply.op = "get_player_stats" =>
    \A i \in 1..Len(reply.text) : ObjKeys(reply.text[i]) = ResolvedKeys

\* The columns "HR" and "hr" were asked for in team scope, and the row sent
\* has the key "hr" alone.
C7_Witness ==
  /\ reply.op = "get_player_stats"
  /\ reply.req.scope = "team"
  /\ reply.req.columns = <<"HR", "hr">>
  /\ Len(reply.text) = 1
  /\ ObjKeys(reply.rows[1]) = <<"HR", "hr">>
  /\ ObjGet(reply.rows[1], "HR") = Undef
  /\ ObjKeys(reply.text[1]) = <<"hr">>

\* C7, for the requests whose resolved columns are all fields of the rows:
\* the keys are exact.
C7_ExactKeysOfFields ==
  (/\ reply.op = "get_player_stats"
   /\ \A i \in 1..Len(reply.rows) :
        \A j \in 1..Len(reply.rows[i]) : reply.rows[i][j].v # Undef) => C7_ExactKeys

\* The dataset rows with the player's name that every filter pair admits.
Admitted ==
  {i \in 1..Len(Named) :
     \A j \in 1..Len(reply.req.filters) :
       JsString(Get(Named[i], reply.req.filters[j][1])) = reply.req.filters[j][2]}

\* C8: with filters, the rows returned are as many as the player's rows
\* whose value of each filter field, converted to a string, equals the
\* filter's value; with no filters or an empty filters object, all of the
\* player's rows are returned.
C8_FiltersEveryPair ==
  reply.op = "get_player_stats" =>
    Len(reply.rows) = IF Unfiltered THEN Len(Named) ELSE Cardinality(Admitted)

\* Of two rows of the player with hr = 1, the filters {bats: "L", hr: "1"}
\* keep the one that bats left.
C8_Witness ==
  /\ reply.op = "get_player_stats"
  /\ reply.req.table = "batting"
  /\ reply.req.columns = <<"hr">>
  /\ reply.req.filters = << <<"bats", "L">>, <<"hr", "1">> >>
  /\ Len(Named) = 2
  /\ Named[1].hr = Num(1000) /\ Named[1].bats = Null
  /\ Named[2].hr = Num(1000) /\ Named[2].bats = Str("L")
  /\ Len(reply.rows) = 1

(***************************************************************************)
(* The teams tool and the innings parser.                                  *)
(***************************************************************************)
Range(f) == {f[i] : i \in DOMAIN f}

\* C9: the list teams() returns is sorted ascending and has no duplicates
\* (each element is strictly below the next one), and its elements are the
\* team codes keyed in the batting index or in the pitching index, which are
\* the upper-cased names of the team directories that hold at least one of
\* the two files.
C9_TeamsSortedUnion ==
  reply.op = "teams" =>
    /\ \A i \in 1..(Len(reply.teams) - 1) : StrLess(reply.teams[i], reply.teams[i + 1])
    /\ Range(reply.teams) = Range(MapKeys(battingByTeam)) \cup Range(MapKeys(pitchingByTeam))
    /\ Range(reply.teams) =
         {toUpperCase(disk[i].name) :
            i \in {j \in 1..Len(disk) :
                     disk[j].isDir /\ (disk[j].batting.ok \/ disk[j].pitching.ok)}}

\* teams() lists two teams that were discovered in descending order, one of
\* them with a batting.csv only.
C9_Witness ==
  /\ reply.op = "teams"
  /\ Len(reply.teams) = 2
  /\ Len(disk) = 2
  /\ StrLess(toUpperCase(disk[2].name), toUpperCase(disk[1].name))
  /\ disk[1].isDir /\ disk[1].batting.ok /\ ~disk[1].pitching.ok
  /\ disk[2].isDir /\ disk[2].pitching.ok

Thirds(outs, ip) ==
  /\ ip.t = "num"
  /\ 3 * ip.n - outs * Milli \in {-1, 0, 1}

\* C10: for an innings value with whole part W and tenths digit d in
\* {0, 1, 2}, or with no fraction, both innings parsers return 3*W + d outs
\* and the decimal innings outs/3 rounded to 3 places; "168.2" gives 506 and
\* 168.667, "168.1" gives 505 and 168.333, "168.0" gives 504 and 168.
C10_InningsParser ==
  (call.fn = "ipToOuts" /\ call.digit \in {0, 1, 2}) =>
    LET outs == 3 * call.whole + call.digit
    IN /\ call.outs = Num(outs * Milli)
       /\ call.dataOuts = Num(outs * Milli)
       /\ Thirds(outs, call.ip)
       /\ Thirds(outs, call.dataIp)
       /\ call.arg = "168.2" => call.outs = Num(506000) /\ call.ip = Num(168667)
       /\ call.arg = "168.1" => call.outs = Num(505000) /\ call.ip = Num(168333)
       /\ call.arg = "168.0" => call.outs = Num(504000) /\ call.ip = Num(168000)
       /\ call.arg \in {"168.2", "168.1", "168.0"} => call.dataOuts = call.outs /\ call.dataIp = call.ip

\* "168.2" has been parsed to 506 outs and 168.667 innings.
C10_Witness ==
  /\ call.fn = "ipToOuts"
  /\ call.arg = "168.2"
  /\ call.outs = Num(506000)
  /\ call.ip = Num(168667)

\* round(fraction * 3) for the fraction 0.d
NearestThird(d) == (3 * d + 5) \div 10

\* An innings value whose tenths digit is none of 0, 1, 2 has been parsed.
Malformed == call.fn = "ipToOuts" /\ call.fraction /\ call.digit \notin {0, 1, 2}

\* C16: for an innings value whose tenths digit is none of 0, 1, 2 every
\* innings parser of the server returns 3*whole + round(fraction*3) outs, a
\* number and not null: "5.5" gives 17 and "12.9" gives 39.
C16_FallbackEverywhere ==
  Malformed =>
    /\ call.outs = Num((3 * call.whole + NearestThird(call.digit)) * Milli)
    /\ call.dataOuts = Num((3 * call.whole + NearestThird(call.digit)) * Milli)

\* "5.5" has been parsed: to 15 outs by server.ts, to 17 by data/batting.ts.
C16_Witness ==
  /\ Malformed
  /\ call.arg = "5.5"
  /\ call.outs = Num(15000)
  /\ call.dataOuts = Num(17000)

\* The parser of data/batting.ts does fall back to the nearest third, and
\* the parser of server.ts counts the whole innings only.
C16_FallbackInDataModule ==
  Malformed =>
    /\ call.dataOuts = Num((3 * call.whole + NearestThird(call.digit)) * Milli)
    /\ call.outs = Num(3 * call.whole * Milli)

(***************************************************************************)
(* The alias resolver.                                                     *)
(***************************************************************************)
Resolved == call.fn = "normalizeMetric"

\* The entry of the alias table for a token, by the lookup order: the exact
\* token, then the upper-cased token, then the token itself.
TableEntry(m) ==
  IF m \in DOMAIN metricAliases THEN metricAliases[m]
  ELSE IF toUpperCase(m) \in DOMAIN metricAliases THEN metricAliases[toUpperCase(m)]
  ELSE m

\* C11: alias resolution returns, for every token, the table's entry for the
\* exact token if there is one, else the entry for the upper-cased token if
\* there is one, else the token unchanged; the result is always a string,
\* and "OPS+" resolves to "ops_plus".
C11_LookupOrder ==
  Resolved =>
    /\ call.result.t = "str"
    /\ call.result.s = TableEntry(call.arg)
    /\ call.arg = "OPS+" => call.result.s = "ops_plus"

\* A token that names a member of Object.prototype has been resolved.
C11_Witness == Resolved /\ call.arg = "constructor" /\ call.result.t = "obj"

\* The lookup order holds of every token that names no inherited member.
C11_LookupOrderOfOwnTokens ==
  (Resolved /\ call.arg \notin DOMAIN ObjectPrototype) =>
    /\ call.result = Str(TableEntry(call.arg))
    /\ call.arg = "OPS+" => call.result.s = "ops_plus"

\* The field under which the row loaders store the column of a CSV header:
\* the IP column is stored converted, as ip.
StoredField(keyMap, h) == IF keyMap[h] = "ip_csv" THEN "ip" ELSE keyMap[h]

\* C12: every CSV header of the batting and pitching key maps resolves to
\* the field under which the row loader stores that column, so that a query
\* by the header reads the field a query by the canonical name reads.
C12_HeadersResolve ==
  Resolved =>
    /\ call.arg \in DOMAIN battingKeyMap =>
         call.key = StoredField(battingKeyMap, call.arg)
    /\ call.arg \in DOMAIN pitchingKeyMap =>
         call.key = StoredField(pitchingKeyMap, call.arg)

\* The header HR has been resolved, to itself.
C12_Witness == Resolved /\ call.arg = "HR" /\ call.key = "HR"

\* The headers the alias table lists do resolve to the stored field.
C12_ListedHeadersResolve ==
  (Resolved /\ call.arg \in DOMAIN metricAliases) =>
    /\ call.arg \in DOMAIN battingKeyMap =>
         call.key = StoredField(battingKeyMap, call.arg)
    /\ call.arg \in DOMAIN pitchingKeyMap =>
         call.key = StoredField(pitchingKeyMap, call.arg)

(***************************************************************************)
(* Query misses, and the indexes under queries.                            *)
(***************************************************************************)
QueryReply == reply.op \in {"get_player_stats", "leaderboard"}

IndexOf(table) == IF table = "batting" THEN battingByTeam ELSE pitchingByTeam

\* The fields of a row of a table: the key map's, with the IP column
\* converted, and the derived ones.
StoredFields(table) ==
  {"team", "player_name", "bats"} \cup
  (IF table = "batting" THEN Range(battingKeyMap)
   ELSE (Range(pitchingKeyMap) \ {"ip_csv"}) \cup {"ip", "ip_outs"})

IsAlias(m) == m \in DOMAIN metricAliases \/ toUpperCase(m) \in DOMAIN metricAliases

\* The request names a team the index of its table has no entry for.
TeamNotLoaded == ~HasKey(IndexOf(reply.req.table), toUpperCase(reply.req.team))

\* The request names a player that no row it reads is named after.
PlayerUnknown ==
  /\ reply.op = "get_player_stats"
  /\ LET data == IF reply.req.scope = "league" THEN MapFlat(IndexOf(reply.req.table))
                  ELSE MapGet(IndexOf(reply.req.table), toUpperCase(reply.req.team))
     IN \A i \in 1..Len(data) :
          toLowerCase(data[i].player_name.s) # toLowerCase(reply.req.player)

\* The request ranks by a token that is no alias and no field of the table.
MetricUnknown ==
  /\ reply.op = "leaderboard"
  /\ ~IsAlias(reply.req.metric)
  /\ reply.req.metric \notin StoredFields(reply.req.table)

\* C13 as stated: get_player_stats and leaderboard answer every request, and
\* a request that names a team with no loaded data, a player no row matches
\* or a metric that is neither an alias nor a stored field gets no rows.
C13_MissIsEmpty ==
  QueryReply =>
    ((TeamNotLoaded \/ PlayerUnknown \/ MetricUnknown) => reply.rows = <<>>)

\* C13: get_player_stats and leaderboard answer every request, and a
\* team-scope request that names a team with no loaded data, a request for
\* a player no row matches or a leaderboard by a metric that is neither an
\* alias nor a stored field gets no rows.
C13_MissIsEmptyInScope ==
  QueryReply =>
    (((reply.req.scope = "team" /\ TeamNotLoaded) \/ PlayerUnknown \/ MetricUnknown)
       => reply.rows = <<>>)

\* A team-scope leaderboard of a team no directory names has been answered
\* with no rows, while the index holds rows of other teams.
C13_Witness ==
  /\ reply.op = "leaderboard"
  /\ reply.req.scope = "team" /\ reply.req.team = "sea" /\ reply.req.metric = "hr"
  /\ reply.req.table = "batting"
  /\ TeamNotLoaded
  /\ Len(MapFlat(battingByTeam)) > 0
  /\ reply.rows = <<>>

\* C14: once the load is over no step changes the batting or the pitching
\* index, the order of the rows of a team included, whatever tool is called
\* with whatever arguments.
C14_IndexesFrozen ==
  [][pc # "loading" =>
       (battingByTeam' = battingByTeam /\ pitchingByTeam' = pitchingByTeam)]_vars

\* A team-scope leaderboard has returned two rows of a team in the reverse
\* of the order the index holds them in.
C14_Witness ==
  /\ reply.op = "leaderboard"
  /\ reply.req.scope = "team" /\ reply.req.table = "batting"
  /\ Len(reply.rows) = 2
  /\ LET rows == MapGet(battingByTeam, toUpperCase(reply.req.team))
     IN /\ Len(rows) = 2
        /\ rows[1].player_name.s = "SOTO"
        /\ ObjGet(reply.rows[1], "player") = rows[2].player_name
        /\ ObjGet(reply.rows[2], "player") = rows[1].player_name

(***************************************************************************)
(* The season load with failing files.                                     *)
(***************************************************************************)
\* The directory entries of team code t whose file of the kind is readable.
ReadableB(t) ==
  {i \in 1..Len(disk) : disk[i].isDir /\ toUpperCase(disk[i].name) = t /\ disk[i].batting.ok}
ReadableP(t) ==
  {i \in 1..Len(disk) : disk[i].isDir /\ toUpperCase(disk[i].name) = t /\ disk[i].pitching.ok}

Latest(S) == CHOOSE i \in S : \A j \in S : j <= i

TeamCodes == {toUpperCase(disk[i].name) : i \in 1..Len(disk)}

\* C15: when the load is over every entry has been visited, and each index
\* holds for a team code exactly the rows of that team's readable file of
\* its kind, and no entry when that file is missing or unreadable: a failing
\* batting file takes nothing from the pitching index or from other teams,
\* and a failing pitching file nothing from the batting index.
C15_FailuresAreLocal ==
  pc # "loading" =>
    /\ next = Len(disk) + 1
    /\ Range(MapKeys(battingByTeam)) = {t \in TeamCodes : ReadableB(t) # {}}
    /\ Range(MapKeys(pitchingByTeam)) = {t \in TeamCodes : ReadableP(t) # {}}
    /\ \A t \in Range(MapKeys(battingByTeam)) :
         MapGet(battingByTeam, t) =
           WithTeam(loadBattingCSV(disk[Latest(ReadableB(t))].batting.rows), t)
    /\ \A t \in Range(MapKeys(pitchingByTeam)) :
         MapGet(pitchingByTeam, t) =
           WithTeam(loadPitchingCSV(disk[Latest(ReadableP(t))].pitching.rows), t)

\* The load is over; a team whose batting file is missing has its pitching
\* rows in the pitching index and no entry in the batting index, and a team
\* visited after it has its batting rows in the batting index.
C15_Witness ==
  /\ pc = "idle"
  /\ \E i, j \in 1..Len(disk) :
       /\ i < j
       /\ disk[i].isDir /\ ~disk[i].batting.ok /\ disk[i].pitching.ok
       /\ ~HasKey(battingByTeam, toUpperCase(disk[i].name))
       /\ Len(MapGet(pitchingByTeam, toUpperCase(disk[i].name))) > 0
       /\ disk[j].isDir /\ disk[j].batting.ok
       /\ Len(MapGet(battingByTeam, toUpperCase(disk[j].name))) > 0

(***************************************************************************)
(* Player names and positions.                                             *)
(***************************************************************************)
Cleaned == call.fn = "cleanPlayer"

MarkedBats(raw) ==
  IF includes(raw, "*") THEN Str("L") ELSE IF includes(raw, "#") THEN Str("S") ELSE Null

CleanName(name) ==
  /\ ~includes(name, "*")
  /\ ~includes(name, "#")
  /\ Len(name) > 0 => (Ch(name, 1) # " " /\ Ch(name, Len(name)) # " ")

\* C17: for every raw player name both cleaners return a name with no "*",
\* no "#" and no space at either end, and bats "L" if the raw name holds a
\* "*", else "S" if it holds a "#", else null, also when a marker is
\* repeated or both occur.
C17_NameCleaned ==
  Cleaned =>
    /\ CleanName(call.name) /\ CleanName(call.dataName)
    /\ call.bats = MarkedBats(call.arg) /\ call.dataBats = MarkedBats(call.arg)

\* "Juan Soto**" has been cleaned, to "Juan Soto*".
C17_Witness ==
  /\ Cleaned
  /\ call.arg = "Juan Soto**"
  /\ call.name = "Juan Soto*" /\ call.dataName = "Juan Soto*"
  /\ call.bats = Str("L")

Count(s, ch) == Cardinality({i \in 1..Len(s) : Ch(s, i) = ch})

\* bats is as stated for every raw name, and the name is clean whenever no
\* marker occurs twice.
C17_SingleMarkersCleaned ==
  Cleaned =>
    /\ call.bats = MarkedBats(call.arg) /\ call.dataBats = MarkedBats(call.arg)
    /\ (Count(call.arg, "*") <= 1 /\ Count(call.arg, "#") <= 1) =>
         (CleanName(call.name) /\ CleanName(call.dataName))

Positions == {"C", "1B", "2B", "3B", "SS", "LF", "CF", "RF", "DH", "UT"}

\* C18: the positions derived from a raw position string are canonical
\* abbreviations, and those of "*4/DH3" include 2B, DH and 1B.
C18_CanonicalPositions ==
  call.fn = "splitPositions" =>
    /\ Range(call.positions) \subseteq Positions
    /\ call.arg = "*4/DH3" => {"2B", "DH", "1B"} \subseteq Range(call.positions)

\* "*4/DH3" has been split, into the tokens "4" and "3".
C18_Witness ==
  /\ call.fn = "splitPositions"
  /\ call.arg = "*4/DH3"
  /\ call.positions = <<"4", "3">>

\* What the splitter does return: the non-empty runs of characters other
\* than "*", "/", "D" and "H", in order.
C18_RawTokens ==
  call.fn = "splitPositions" =>
    \A i \in 1..Len(call.positions) :
      /\ call.positions[i] # ""
      /\ \A c \in {"*", "/", "D", "H"} : ~includes(call.positions[i], c)

(***************************************************************************)
(* Requests in flight together.                                            *)
(***************************************************************************)
\* C19: however the handlers of the callers' requests interleave at their
\* await points, a caller is sent no response but the one to its own
\* request, and a caller whose request has been handled has been sent it,
\* as when the requests are handled one after the other.
C19_OwnResponse ==
  \A c \in Clients :
    /\ posts[c].response \in {"none", c}
    /\ posts[c].pc = "sent" => posts[c].response = c

\* Caller a's request has been handled while the server was bound to the
\* transport of caller b: b has been sent the response to a's request, and
\* a none.
C19_Witness ==
  /\ posts["a"].pc = "sent" /\ posts["a"].via = "b"
  /\ posts["a"].response = "none"
  /\ posts["b"].response = "a"

\* A request handled while the server is bound to its own transport, with
\* no response sent to its caller before, is answered with its own response.
C19_OwnTransportAnswers ==
  [][\A c \in Clients :
       (posts[c].pc = "running" /\ posts[c].via = c /\ posts[c].response = "none"
        /\ posts'[c].pc = "sent") => posts'[c].response = c]_vars

====
